---- MODULE Spec2Model ----
(***************************************************************************)
(* Sketchpad (src/src/main.ts): the display list `drawing`, the redo      *)
(* stack, the in-progress command, the tool preview and the tool          *)
(* parameters, driven by the canvas and button event handlers.            *)
(*                                                                         *)
(* Drawables are JavaScript objects: the model keeps them in a heap keyed  *)
(* by an allocation number, and the lists hold references (the numbers).  *)
(* Objects no list or slot refers to are dropped from the heap, as they   *)
(* are unreachable for the program.                                        *)
(***************************************************************************)
EXTENDS Integers, Sequences, FiniteSets, TLC

\* ---------------------------------------------------------------- bounds
\* Drawables one run of Spec may create (new penLine / new Sticker).
MaxObjs == 3
\* Drawables one run of SpecTools, or of SpecStamp, may create.
MaxToolObjs == 1
\* Drawables one run of SpecScenario may create.
MaxN == 4
\* Longest path a stroke may grow to (drags are not delivered beyond it),
\* in Spec and SpecScenario, and in SpecTools.
MaxHistPath == 2
MaxPath == 3
\* Custom stamps one run of SpecStickers may add.
MaxAdded == 1
\* Drawables one run of SpecEdit may create.
MaxEditObjs == 2

\* ---------------------------------------------------------------- inputs
\* Mouse events carry client coordinates. Spec delivers every event at one
\* place (repeated coordinates), SpecTools at two.
OnePoint == {[x |-> 18, y |-> 18]}
ClientPoints == {[x |-> 18, y |-> 18], [x |-> 28, y |-> 18]}
\* Values of the range input, as the digit strings the DOM hands over.
SliderValues == {<<9, 0>>}
\* The sticker buttons (positions in availableStickers) the user clicks.
FirstSticker == {1}
TwoStickers == {1, 2}
\* A string is the sequence of its characters; an emoji is one character.
Whitespace == {" "}
\* What prompt() returns: null when cancelled, else the text typed.
PromptAnswers ==
  {[cancelled |-> TRUE, text |-> <<>>],
   [cancelled |-> FALSE, text |-> <<>>],
   [cancelled |-> FALSE, text |-> <<" ">>],
   [cancelled |-> FALSE, text |-> <<" ", " ">>],
   [cancelled |-> FALSE, text |-> <<"sparkle">>],
   [cancelled |-> FALSE, text |-> <<" ", "sparkle">>],
   [cancelled |-> FALSE, text |-> <<"star">>],
   [cancelled |-> FALSE, text |-> <<"palette">>]}

\* ---------------------------------------------------------------- values
\* null in the slot currentCommand, and in toolPreview.
Null == 0
NoPreview == [kind |-> "null"]
\* The point of an event that carries none, and the download of a handler
\* that downloads nothing.
NoPoint == [x |-> -1, y |-> -1]
NoImage == <<[obj |-> -1, ink |-> <<>>]>>

\* canvas.getBoundingClientRect(), read once when the listeners are set up.
rect == [left |-> 8, top |-> 8]

Range(s) == {s[i] : i \in 1..Len(s)}

\* { x: e.clientX - rect.left, y: e.clientY - rect.top }
ToCanvas(e) == [x |-> e.x - rect.left, y |-> e.y - rect.top]

RECURSIVE Trim(_)
\* String.prototype.trim: whitespace removed from both ends.
Trim(str) ==
  IF str = <<>> THEN str
  ELSE IF str[1] \in Whitespace THEN Trim(Tail(str))
  ELSE IF str[Len(str)] \in Whitespace THEN Trim(SubSeq(str, 1, Len(str) - 1))
  ELSE str

RECURSIVE ParseInt(_)
\* parseInt(value, 10) of a string of decimal digits.
ParseInt(ds) ==
  IF ds = <<>> THEN 0 ELSE 10 * ParseInt(SubSeq(ds, 1, Len(ds) - 1)) + ds[Len(ds)]

\* `hsl(${currentSetting}, 100%, 50%)`
getCurrentColor(setting) == [fn |-> "hsl", h |-> setting, s |-> 100, l |-> 50]
\* `hsla(${currentSetting}, 100%, 50%, 0.5)` (alpha in tenths)
getPreviewColor(setting) == [fn |-> "hsla", h |-> setting, s |-> 100, l |-> 50, a |-> 5]
getCurrentRotation(setting) == setting

\* ------------------------------------------------------------- drawables
\* new penLine(startPoint, lineWidth, color)
NewPenLine(p, w, c) == [kind |-> "penLine", path |-> <<p>>, lineWidth |-> w, color |-> c]
\* new Sticker(position, emoji, rotation)
NewSticker(p, e, r) == [kind |-> "Sticker", position |-> p, emoji |-> e, rotation |-> r]
\* new penPreview(position, lineWidth, color)
NewPenPreview(p, w, c) == [kind |-> "penPreview", position |-> p, lineWidth |-> w, color |-> c]
\* new StickerPreview(position, emoji, rotation)
NewStickerPreview(p, e, r) ==
  [kind |-> "StickerPreview", position |-> p, emoji |-> e, rotation |-> r]

\* Mutant of Drag: a sticker does not follow the pointer.
DragLeavesSticker(o, p) ==
  IF o.kind = "penLine" THEN [o EXCEPT !.path = Append(@, p)] ELSE o

\* Mutant of Drag: a stroke takes the new point at its front.
DragPrepends(o, p) ==
  IF o.kind = "penLine" THEN [o EXCEPT !.path = <<p>> \o @]
  ELSE [o EXCEPT !.position = p]

\* penLine.drag pushes the point, Sticker.drag overwrites the position.
Drag(o, p) ==
  IF o.kind = "penLine" THEN [o EXCEPT !.path = Append(@, p)]
  ELSE [o EXCEPT !.position = p]

\* Mutant of isValid: a single point is enough.
isValidAny(o) == Len(o.path) > 0

\* penLine.isValid
isValid(o) == Len(o.path) > 1

\* display(ctx): the paint operations one drawable issues.
Display(o) ==
  CASE o.kind = "penLine" ->
         IF Len(o.path) < 2 THEN <<>>
         ELSE <<[op |-> "stroke", path |-> o.path, lineWidth |-> o.lineWidth,
                 style |-> o.color, cap |-> "round", join |-> "round"]>>
    [] o.kind = "penPreview" ->
         <<[op |-> "arc", at |-> o.position, diameter |-> o.lineWidth, style |-> o.color]>>
    [] o.kind = "Sticker" ->
         <<[op |-> "text", at |-> o.position, text |-> o.emoji, angle |-> o.rotation,
            alpha |-> 10]>>
    [] o.kind = "StickerPreview" ->
         <<[op |-> "text", at |-> o.position, text |-> o.emoji, angle |-> o.rotation,
            alpha |-> 5]>>

\* ---------------------------------------------------------------- state
VARIABLES
  ctx,               \* whether canvas.getContext("2d") gave a context
  heap,              \* reference -> drawable object (reachable objects only)
  nextRef,           \* the reference the next `new` returns
  drawing,           \* display list: references, oldest first
  redoStack,         \* undone references, most recently undone last
  currentCommand,    \* reference of the in-progress command, or Null
  toolPreview,       \* preview object, or NoPreview
  isDrawing,
  currentTool,
  currentLineWidth,
  currentSticker,
  currentSetting,
  availableStickers,
  surface,           \* display calls on the canvas since its last clearRect
  download,          \* display calls of the image the last handler downloaded
  lastEvent,         \* history: the event handled last, its point, its redraws
  everCommitted,     \* history: references ever pushed to drawing by stopDrawing
  phase, orig, count \* history of the commit/undo/redo scenario

pvars == <<heap, nextRef, drawing, redoStack, currentCommand, toolPreview, isDrawing,
           currentTool, currentLineWidth, currentSticker, currentSetting,
           availableStickers, surface, download, everCommitted>>
gvars == <<phase, orig, count>>
vars == <<ctx, pvars, lastEvent, gvars>>

\* The program state as one value, so that handlers compose sequentially.
State ==
  [heap |-> heap, nextRef |-> nextRef, drawing |-> drawing, redoStack |-> redoStack,
   currentCommand |-> currentCommand, toolPreview |-> toolPreview,
   isDrawing |-> isDrawing, currentTool |-> currentTool,
   currentLineWidth |-> currentLineWidth, currentSticker |-> currentSticker,
   currentSetting |-> currentSetting, availableStickers |-> availableStickers,
   surface |-> surface, download |-> download, everCommitted |-> everCommitted,
   redraws |-> 0]

Becomes(s) ==
  /\ heap' = s.heap
  /\ nextRef' = s.nextRef
  /\ drawing' = s.drawing
  /\ redoStack' = s.redoStack
  /\ currentCommand' = s.currentCommand
  /\ toolPreview' = s.toolPreview
  /\ isDrawing' = s.isDrawing
  /\ currentTool' = s.currentTool
  /\ currentLineWidth' = s.currentLineWidth
  /\ currentSticker' = s.currentSticker
  /\ currentSetting' = s.currentSetting
  /\ availableStickers' = s.availableStickers
  /\ surface' = s.surface
  /\ download' = s.download
  /\ everCommitted' = s.everCommitted

\* References some list or slot of s holds.
Reachable(s) ==
  Range(s.drawing) \cup Range(s.redoStack) \cup
  (IF s.currentCommand = Null THEN {} ELSE {s.currentCommand})

\* Objects nothing refers to any more are gone.
Collect(s) == [s EXCEPT !.heap = [r \in Reachable(s) |-> s.heap[r]]]

\* The display calls of one list of references.
DisplayAll(s, refs) == [i \in 1..Len(refs) |-> [obj |-> refs[i], ink |-> Display(s.heap[refs[i]])]]

\* Mutant of redraw: the in-progress command is not painted.
redrawSkipsCurrent(s) ==
  [s EXCEPT
     !.surface =
        DisplayAll(s, s.drawing)
        \o (IF s.toolPreview # NoPreview
              THEN <<[obj |-> Null, ink |-> Display(s.toolPreview)]>>
              ELSE <<>>),
     !.redraws = @ + 1]

\* Mutant of redraw: the preview is used up by painting it.
redrawDropsPreview(s) ==
  [s EXCEPT
     !.surface =
        DisplayAll(s, s.drawing)
        \o (IF s.currentCommand # Null
              THEN <<[obj |-> s.currentCommand, ink |-> Display(s.heap[s.currentCommand])]>>
              ELSE <<>>)
        \o (IF s.toolPreview # NoPreview
              THEN <<[obj |-> Null, ink |-> Display(s.toolPreview)]>>
              ELSE <<>>),
     !.toolPreview = NoPreview,
     !.redraws = @ + 1]

\* redraw(): clearRect, the display list, the in-progress command, the preview.
redraw(s) ==
  [s EXCEPT
     !.surface =
        DisplayAll(s, s.drawing)
        \o (IF s.currentCommand # Null
              THEN <<[obj |-> s.currentCommand, ink |-> Display(s.heap[s.currentCommand])]>>
              ELSE <<>>)
        \o (IF s.toolPreview # NoPreview
              THEN <<[obj |-> Null, ink |-> Display(s.toolPreview)]>>
              ELSE <<>>),
     !.redraws = @ + 1]

\* canvas.dispatchEvent(new CustomEvent("drawing-changed")): the one listener
\* is redraw, run synchronously.
dispatchDrawingChanged(s) == redraw(s)

\* Mutant of mousedown: a command still in the slot is committed first.
mousedownCommitsOld(s, e) ==
  LET point == ToCanvas(e)
      s0 == IF s.currentCommand # Null
              THEN [s EXCEPT !.drawing = Append(@, s.currentCommand),
                             !.everCommitted = @ \cup {s.currentCommand}]
              ELSE s
      s1 == [s0 EXCEPT !.isDrawing = TRUE, !.toolPreview = NoPreview, !.redoStack = <<>>]
      obj == IF s1.currentTool = "pen"
               THEN NewPenLine(point, s1.currentLineWidth, getCurrentColor(s1.currentSetting))
               ELSE NewSticker(point, s1.currentSticker, getCurrentRotation(s1.currentSetting))
      s2 == [s1 EXCEPT !.heap = [r \in DOMAIN s1.heap \cup {s1.nextRef} |->
                                   IF r = s1.nextRef THEN obj ELSE s1.heap[r]],
                       !.currentCommand = s1.nextRef,
                       !.nextRef = @ + 1]
  IN dispatchDrawingChanged(Collect(s2))

\* ---------------------------------------------------------------- handlers
\* Mutant of mousedown: the preview is left alone.
mousedownKeepsPreview(s, e) ==
  LET point == ToCanvas(e)
      s1 == [s EXCEPT !.isDrawing = TRUE, !.redoStack = <<>>]
      obj == IF s1.currentTool = "pen"
               THEN NewPenLine(point, s1.currentLineWidth, getCurrentColor(s1.currentSetting))
               ELSE NewSticker(point, s1.currentSticker, getCurrentRotation(s1.currentSetting))
      s2 == [s1 EXCEPT !.heap = [r \in DOMAIN s1.heap \cup {s1.nextRef} |->
                                   IF r = s1.nextRef THEN obj ELSE s1.heap[r]],
                       !.currentCommand = s1.nextRef,
                       !.nextRef = @ + 1]
  IN dispatchDrawingChanged(Collect(s2))

\* Mutant of mousedown: the redo stack is left alone.
mousedownKeepsRedo(s, e) ==
  LET point == ToCanvas(e)
      s1 == [s EXCEPT !.isDrawing = TRUE, !.toolPreview = NoPreview]
      obj == IF s1.currentTool = "pen"
               THEN NewPenLine(point, s1.currentLineWidth, getCurrentColor(s1.currentSetting))
               ELSE NewSticker(point, s1.currentSticker, getCurrentRotation(s1.currentSetting))
      s2 == [s1 EXCEPT !.heap = [r \in DOMAIN s1.heap \cup {s1.nextRef} |->
                                   IF r = s1.nextRef THEN obj ELSE s1.heap[r]],
                       !.currentCommand = s1.nextRef,
                       !.nextRef = @ + 1]
  IN dispatchDrawingChanged(Collect(s2))

\* canvas "mousedown"
mousedown(s, e) ==
  LET point == ToCanvas(e)
      s1 == [s EXCEPT !.isDrawing = TRUE, !.toolPreview = NoPreview, !.redoStack = <<>>]
      obj == IF s1.currentTool = "pen"
               THEN NewPenLine(point, s1.currentLineWidth, getCurrentColor(s1.currentSetting))
               ELSE NewSticker(point, s1.currentSticker, getCurrentRotation(s1.currentSetting))
      s2 == IF s1.currentTool \in {"pen", "stamp"}
              THEN [s1 EXCEPT !.heap = [r \in DOMAIN s1.heap \cup {s1.nextRef} |->
                                          IF r = s1.nextRef THEN obj ELSE s1.heap[r]],
                              !.currentCommand = s1.nextRef,
                              !.nextRef = @ + 1]
              ELSE s1
  IN dispatchDrawingChanged(Collect(s2))

\* canvas "mousemove"
mousemove(s, e) ==
  LET point == ToCanvas(e)
      s1 == IF s.isDrawing /\ s.currentCommand # Null
              THEN [s EXCEPT !.heap[s.currentCommand] = Drag(@, point)]
              ELSE IF s.currentTool = "pen"
                THEN [s EXCEPT !.toolPreview =
                        NewPenPreview(point, s.currentLineWidth,
                                      getPreviewColor(s.currentSetting))]
              ELSE IF s.currentTool = "stamp"
                THEN [s EXCEPT !.toolPreview =
                        NewStickerPreview(point, s.currentSticker,
                                          getCurrentRotation(s.currentSetting))]
              ELSE s
  IN dispatchDrawingChanged(s1)

\* Mutant of stopDrawing: the flag stays set.
stopDrawingKeepsFlag(s) ==
  IF ~s.isDrawing \/ s.currentCommand = Null THEN s
  ELSE
    LET cmd == s.currentCommand
        push == [s EXCEPT !.drawing = Append(@, cmd),
                          !.everCommitted = @ \cup {cmd}]
        s2 == IF s.heap[cmd].kind = "penLine" /\ isValid(s.heap[cmd]) THEN push
              ELSE IF s.heap[cmd].kind = "Sticker" THEN push
              ELSE s
        s3 == [s2 EXCEPT !.currentCommand = Null]
    IN dispatchDrawingChanged(Collect(s3))

\* Mutant of stopDrawing: the command stays in the slot and the flag stays set.
stopDrawingKeepsSlot(s) ==
  IF ~s.isDrawing \/ s.currentCommand = Null THEN s
  ELSE
    LET cmd == s.currentCommand
        push == [s EXCEPT !.drawing = Append(@, cmd),
                          !.everCommitted = @ \cup {cmd}]
        s2 == IF s.heap[cmd].kind = "penLine" /\ isValid(s.heap[cmd]) THEN push
              ELSE IF s.heap[cmd].kind = "Sticker" THEN push
              ELSE s
    IN dispatchDrawingChanged(Collect(s2))

\* stopDrawing: the "mouseup" listener, also called by "mouseleave".
stopDrawing(s) ==
  IF ~s.isDrawing \/ s.currentCommand = Null THEN s
  ELSE
    LET cmd == s.currentCommand
        s1 == [s EXCEPT !.isDrawing = FALSE]
        push == [s1 EXCEPT !.drawing = Append(@, cmd),
                           !.everCommitted = @ \cup {cmd}]
        s2 == IF s1.heap[cmd].kind = "penLine" /\ isValid(s1.heap[cmd]) THEN push
              ELSE IF s1.heap[cmd].kind = "Sticker" THEN push
              ELSE s1
        s3 == [s2 EXCEPT !.currentCommand = Null]
    IN dispatchDrawingChanged(Collect(s3))

\* Mutant of mouseleave: the in-progress command is thrown away.
mouseleaveCancels(s) ==
  LET s1 == IF s.isDrawing
              THEN Collect([s EXCEPT !.isDrawing = FALSE, !.currentCommand = Null])
              ELSE s
      s2 == [s1 EXCEPT !.toolPreview = NoPreview]
  IN dispatchDrawingChanged(s2)

\* Mutant of mouseleave: the preview stays.
mouseleaveKeepsPreview(s) ==
  LET s1 == IF s.isDrawing THEN stopDrawing(s) ELSE s
  IN dispatchDrawingChanged(s1)

\* canvas "mouseleave"
mouseleave(s) ==
  LET s1 == IF s.isDrawing THEN stopDrawing(s) ELSE s
      s2 == [s1 EXCEPT !.toolPreview = NoPreview]
  IN dispatchDrawingChanged(s2)

\* Mutant of clear: a command in progress is cancelled too.
clearCancels(s) ==
  dispatchDrawingChanged(Collect([s EXCEPT !.drawing = <<>>, !.redoStack = <<>>,
                                           !.currentCommand = Null,
                                           !.isDrawing = FALSE]))

\* Mutant of clear: only the display list is emptied.
clearKeepsRedo(s) == dispatchDrawingChanged(Collect([s EXCEPT !.drawing = <<>>]))

\* clearButton "click"
clear(s) ==
  dispatchDrawingChanged(Collect([s EXCEPT !.drawing = <<>>, !.redoStack = <<>>]))

\* Mutant of undo: the undone command goes to the front of the redo stack.
undoToFront(s) ==
  IF Len(s.drawing) = 0 THEN s
  ELSE
    LET commandToUndo == s.drawing[Len(s.drawing)]
    IN dispatchDrawingChanged(
         [s EXCEPT !.drawing = SubSeq(@, 1, Len(@) - 1),
                   !.redoStack = <<commandToUndo>> \o @])

\* Mutant of undo: the command is pushed on the redo stack but stays in drawing.
undoCopies(s) ==
  IF Len(s.drawing) = 0 THEN s
  ELSE dispatchDrawingChanged(
         [s EXCEPT !.redoStack = Append(@, s.drawing[Len(s.drawing)])])

\* Mutant of undo: no check for an empty display list (pop() gives undefined).
undoUnguarded(s) ==
  LET commandToUndo == IF Len(s.drawing) = 0 THEN Null ELSE s.drawing[Len(s.drawing)]
  IN dispatchDrawingChanged(
       [s EXCEPT !.drawing = IF Len(@) = 0 THEN @ ELSE SubSeq(@, 1, Len(@) - 1),
                 !.redoStack = Append(@, commandToUndo)])

\* undoButton "click"
undo(s) ==
  IF Len(s.drawing) = 0 THEN s
  ELSE
    LET commandToUndo == s.drawing[Len(s.drawing)]
    IN dispatchDrawingChanged(
         [s EXCEPT !.drawing = SubSeq(@, 1, Len(@) - 1),
                   !.redoStack = Append(@, commandToUndo)])

\* Mutant of redo: takes the oldest undone command (shift() for pop()).
redoOldest(s) ==
  IF Len(s.redoStack) = 0 THEN s
  ELSE dispatchDrawingChanged(
         [s EXCEPT !.redoStack = SubSeq(@, 2, Len(@)),
                   !.drawing = Append(@, s.redoStack[1])])

\* redoButton "click"
redo(s) ==
  IF Len(s.redoStack) = 0 THEN s
  ELSE
    LET commandToRedo == s.redoStack[Len(s.redoStack)]
    IN dispatchDrawingChanged(
         [s EXCEPT !.redoStack = SubSeq(@, 1, Len(@) - 1),
                   !.drawing = Append(@, commandToRedo)])

\* Mutant of selectTool: the stamp option is ignored.
selectToolIgnoresStamp(s, tool, options) ==
  LET s1 == [s EXCEPT !.currentTool = tool]
  IN IF options.lineWidth # 0 THEN [s1 EXCEPT !.currentLineWidth = options.lineWidth]
     ELSE s1

\* selectTool(button, tool, options); an absent option is 0 / "" (both falsy).
selectTool(s, tool, options) ==
  LET s1 == [s EXCEPT !.currentTool = tool]
      s2 == IF options.lineWidth # 0 THEN [s1 EXCEPT !.currentLineWidth = options.lineWidth]
            ELSE s1
  IN IF options.stamp # <<>> THEN [s2 EXCEPT !.currentSticker = options.stamp] ELSE s2

\* Mutant of the slider handler: the in-progress command follows the slider.
sliderRecolors(s, value) ==
  LET v == ParseInt(value)
      s1 == [s EXCEPT !.currentSetting = v]
  IN IF s.currentCommand = Null THEN s1
     ELSE IF s.heap[s.currentCommand].kind = "penLine"
       THEN [s1 EXCEPT !.heap[s.currentCommand].color = getCurrentColor(v)]
     ELSE [s1 EXCEPT !.heap[s.currentCommand].rotation = getCurrentRotation(v)]

\* slider "input"
sliderInput(s, value) == [s EXCEPT !.currentSetting = ParseInt(value)]

RECURSIVE regenerateFrom(_, _)
\* regenerateStickerButtons, from the i-th entry on: one button per entry, and
\* the button of the active stamp is selected again.
regenerateFrom(s, i) ==
  IF i > Len(s.availableStickers) THEN s
  ELSE
    LET emoji == s.availableStickers[i]
        s1 == IF s.currentTool = "stamp" /\ s.currentSticker = emoji
                THEN selectTool(s, "stamp", [lineWidth |-> 0, stamp |-> emoji])
                ELSE s
    IN regenerateFrom(s1, i + 1)

regenerateStickerButtons(s) == regenerateFrom(s, 1)

\* Mutant of the add-stamp handler: a glyph already available is not added again.
addStickerDedup(s, answer) ==
  LET newSticker == answer.text
  IN IF ~answer.cancelled /\ newSticker # <<>> /\ Trim(newSticker) # <<>>
       THEN LET s1 == IF \E i \in 1..Len(s.availableStickers) :
                            s.availableStickers[i] = newSticker
                        THEN s
                        ELSE [s EXCEPT !.availableStickers = Append(@, newSticker)]
                s2 == regenerateStickerButtons(s1)
            IN selectTool(s2, "stamp", [lineWidth |-> 0, stamp |-> newSticker])
       ELSE s

\* Mutant of the add-stamp handler: any non-empty answer is taken.
addStickerNoTrim(s, answer) ==
  LET newSticker == answer.text
  IN IF ~answer.cancelled /\ newSticker # <<>>
       THEN LET s1 == [s EXCEPT !.availableStickers = Append(@, newSticker)]
                s2 == regenerateStickerButtons(s1)
            IN selectTool(s2, "stamp", [lineWidth |-> 0, stamp |-> newSticker])
       ELSE s

\* addStickerButton "click", prompt() answering `answer`.
addSticker(s, answer) ==
  LET newSticker == answer.text
  IN IF ~answer.cancelled /\ newSticker # <<>> /\ Trim(newSticker) # <<>>
       THEN LET s1 == [s EXCEPT !.availableStickers = Append(@, newSticker)]
                s2 == regenerateStickerButtons(s1)
            IN selectTool(s2, "stamp", [lineWidth |-> 0, stamp |-> newSticker])
       ELSE s

\* Mutant of exportDrawing: the in-progress command is painted too.
exportWithCurrent(s) ==
  [s EXCEPT !.download =
     DisplayAll(s, IF s.currentCommand = Null THEN s.drawing
                   ELSE Append(s.drawing, s.currentCommand))]

\* exportDrawing: only the display list is painted on the export canvas.
exportDrawing(s) == [s EXCEPT !.download = DisplayAll(s, s.drawing)]

\* ---------------------------------------------------------------- actions
\* Every handler starts with no image downloaded by it.
Begin == [State EXCEPT !.download = NoImage]

\* lastEvent records the event, its canvas point, how often redraw ran, the
\* references stopDrawing pushed and the references that became unreachable.
\* Mutant of Wired: the listeners are added whether or not there is a context.
WiredAlways(s) == s

\* The listeners exist only if there is a context: without one an event
\* leaves the state as it is.
Wired(s) == IF ctx THEN s ELSE State

Handle(ev, pt, s) ==
  /\ Becomes(Wired(s))
  /\ lastEvent' = [ev |-> ev, pt |-> pt, redraws |-> Wired(s).redraws,
                   committed |-> Wired(s).everCommitted \ everCommitted,
                   dropped |-> Reachable(State) \ Reachable(Wired(s))]
  /\ UNCHANGED ctx

\* Events are delivered at the places P; at most n drawables are created.
MouseDown(P, n) ==
  /\ nextRef <= n
  /\ \E e \in P : Handle("mousedown", ToCanvas(e), mousedown(Begin, e))

MouseMove(P, m) ==
  \E e \in P :
    /\ (isDrawing /\ currentCommand # Null /\ heap[currentCommand].kind = "penLine")
         => Len(heap[currentCommand].path) < m
    /\ Handle("mousemove", ToCanvas(e), mousemove(Begin, e))

MouseUp == Handle("mouseup", NoPoint, stopDrawing(Begin))

MouseLeave == Handle("mouseleave", NoPoint, mouseleave(Begin))

Clear == Handle("clear", NoPoint, clear(Begin))

Undo == Handle("undo", NoPoint, undo(Begin))

Redo == Handle("redo", NoPoint, redo(Begin))

ThinButton ==
  Handle("thin", NoPoint, selectTool(Begin, "pen", [lineWidth |-> 2, stamp |-> <<>>]))

ThickButton ==
  Handle("thick", NoPoint, selectTool(Begin, "pen", [lineWidth |-> 10, stamp |-> <<>>]))

\* The buttons regenerateStickerButtons made, one per entry of availableStickers.
StickerButton(I) ==
  \E i \in I \cap (1..Len(availableStickers)) :
    Handle("sticker", NoPoint,
           selectTool(Begin, "stamp", [lineWidth |-> 0, stamp |-> availableStickers[i]]))

Slider(V) == \E v \in V : Handle("slider", NoPoint, sliderInput(Begin, v))

Export == Handle("export", NoPoint, exportDrawing(Begin))

\* At most n custom stamps are added; lastEvent also records the answer.
AddSticker(A, n) ==
  /\ Len(availableStickers) < 3 + n
  /\ \E answer \in A :
       /\ Becomes(Wired(addSticker(Begin, answer)))
       /\ lastEvent' = [ev |-> "addSticker", pt |-> NoPoint, redraws |-> 0,
                        committed |-> {}, dropped |-> {}, answer |-> answer]
       /\ UNCHANGED ctx

Loaded ==
  /\ heap = <<>>
  /\ nextRef = 1
  /\ drawing = <<>>
  /\ redoStack = <<>>
  /\ currentCommand = Null
  /\ toolPreview = NoPreview
  /\ isDrawing = FALSE
  /\ currentTool = "pen"
  /\ currentLineWidth = 2
  /\ currentSticker = <<"palette">>
  /\ currentSetting = 0
  /\ availableStickers = << <<"star">>, <<"heart">>, <<"fire">> >>
  /\ surface = <<>>
  /\ download = NoImage
  /\ lastEvent = [ev |-> "load", pt |-> NoPoint, redraws |-> 0,
                  committed |-> {}, dropped |-> {}]
  /\ everCommitted = {}

InitProgram == ctx = TRUE /\ Loaded

Init ==
  /\ InitProgram
  /\ phase = "free"
  /\ orig = <<>>
  /\ count = [undos |-> 0, redos |-> 0]

InitScenario ==
  /\ InitProgram
  /\ phase = "commit"
  /\ orig = <<>>
  /\ count = [undos |-> 0, redos |-> 0]

\* Spec: drawing, history and export events in every order, with both tools.
Next ==
  \/ MouseDown(OnePoint, MaxObjs) /\ UNCHANGED gvars
  \/ MouseMove(OnePoint, MaxHistPath) /\ UNCHANGED gvars
  \/ MouseUp /\ UNCHANGED gvars
  \/ MouseLeave /\ UNCHANGED gvars
  \/ Clear /\ UNCHANGED gvars
  \/ Undo /\ UNCHANGED gvars
  \/ Redo /\ UNCHANGED gvars
  \/ ThinButton /\ UNCHANGED gvars
  \/ StickerButton(FirstSticker) /\ UNCHANGED gvars
  \/ Export /\ UNCHANGED gvars

Spec == Init /\ [][Next]_vars

\* SpecTools: drawing at two places while the tool parameters change at any time.
NextTools ==
  \/ MouseDown(ClientPoints, MaxToolObjs) /\ UNCHANGED gvars
  \/ MouseMove(ClientPoints, MaxPath) /\ UNCHANGED gvars
  \/ MouseUp /\ UNCHANGED gvars
  \/ MouseLeave /\ UNCHANGED gvars
  \/ ThickButton /\ UNCHANGED gvars
  \/ StickerButton(FirstSticker) /\ UNCHANGED gvars
  \/ Slider(SliderValues) /\ UNCHANGED gvars

SpecTools == Init /\ [][NextTools]_vars

\* SpecStamp: placing stamps at two places while the glyph and the rotation
\* change at any time.
NextStamp ==
  \/ MouseDown(ClientPoints, MaxToolObjs) /\ UNCHANGED gvars
  \/ MouseMove(ClientPoints, MaxHistPath) /\ UNCHANGED gvars
  \/ MouseUp /\ UNCHANGED gvars
  \/ MouseLeave /\ UNCHANGED gvars
  \/ ThinButton /\ UNCHANGED gvars
  \/ StickerButton(TwoStickers) /\ UNCHANGED gvars
  \/ Slider(SliderValues) /\ UNCHANGED gvars

SpecStamp == Init /\ [][NextStamp]_vars

\* SpecEdit: two drawables, dragged to two places, with undo, redo, clear and
\* a change of tool.
NextEdit ==
  \/ MouseDown(OnePoint, MaxEditObjs) /\ UNCHANGED gvars
  \/ MouseMove(ClientPoints, MaxHistPath) /\ UNCHANGED gvars
  \/ MouseUp /\ UNCHANGED gvars
  \/ MouseLeave /\ UNCHANGED gvars
  \/ Clear /\ UNCHANGED gvars
  \/ Undo /\ UNCHANGED gvars
  \/ Redo /\ UNCHANGED gvars
  \/ StickerButton(FirstSticker) /\ UNCHANGED gvars

SpecEdit == Init /\ [][NextEdit]_vars

\* SpecStickers: custom stamps are added while drawing goes on.
NextStickers ==
  \/ MouseDown(OnePoint, MaxToolObjs) /\ UNCHANGED gvars
  \/ MouseMove(OnePoint, MaxHistPath) /\ UNCHANGED gvars
  \/ MouseUp /\ UNCHANGED gvars
  \/ MouseLeave /\ UNCHANGED gvars
  \/ Undo /\ UNCHANGED gvars
  \/ ThinButton /\ UNCHANGED gvars
  \/ StickerButton(1..Len(availableStickers)) /\ UNCHANGED gvars
  \/ AddSticker(PromptAnswers, MaxAdded) /\ UNCHANGED gvars

SpecStickers == Init /\ [][NextStickers]_vars

\* SpecBoot: the events of Spec, the page loaded with or without a 2D context.
InitBoot ==
  /\ ctx \in BOOLEAN
  /\ Loaded
  /\ phase = "free"
  /\ orig = <<>>
  /\ count = [undos |-> 0, redos |-> 0]

SpecBoot == InitBoot /\ [][Next]_vars

\* SpecScenario: N committed actions, then K <= N undos, then K redos. orig is
\* the display list (references and objects) when the first undo is clicked.
Snapshot == [i \in 1..Len(drawing) |-> [ref |-> drawing[i], obj |-> heap[drawing[i]]]]

ScenarioUndo ==
  /\ phase \in {"commit", "undo"}
  /\ count.undos < (IF phase = "commit" THEN Len(drawing) ELSE Len(orig))
  /\ Undo
  /\ phase' = "undo"
  /\ orig' = IF phase = "commit" THEN Snapshot ELSE orig
  /\ count' = [count EXCEPT !.undos = @ + 1]

ScenarioRedo ==
  /\ phase \in {"undo", "redo"}
  /\ count.redos < count.undos
  /\ Redo
  /\ phase' = "redo"
  /\ count' = [count EXCEPT !.redos = @ + 1]
  /\ UNCHANGED orig

NextScenario ==
  \/ phase = "commit" /\ MouseDown(OnePoint, MaxN) /\ UNCHANGED gvars
  \/ phase = "commit" /\ MouseMove(OnePoint, MaxHistPath) /\ UNCHANGED gvars
  \/ phase = "commit" /\ MouseUp /\ UNCHANGED gvars
  \/ phase = "commit" /\ MouseLeave /\ UNCHANGED gvars
  \/ phase = "commit" /\ ThinButton /\ UNCHANGED gvars
  \/ phase = "commit" /\ StickerButton(FirstSticker) /\ UNCHANGED gvars
  \/ ScenarioUndo
  \/ ScenarioRedo

SpecScenario == InitScenario /\ [][NextScenario]_vars

\* ------------------------------------------------------------------ claims
StopEvents == {"mouseup", "mouseleave"}
NoDuplicates(q) == \A i, j \in 1..Len(q) : i # j => q[i] # q[j]

\* C1: right after a pointer-up or pointer-leave that appended a drawable to
\* drawing, redoStack is empty, whatever was delivered since the pointer-down.
C1_CommitLeavesRedoEmpty ==
  (lastEvent.ev \in StopEvents /\ lastEvent.committed # {}) => redoStack = <<>>

\* C2: N commits then K <= N undos leave the first N-K drawables in drawing, in
\* order, and K references in redoStack; K redos then give back the original
\* display list (same references, same objects, same order) and an empty
\* redoStack.
C2_UndoRedoRestores ==
  /\ phase = "undo" =>
       /\ Len(drawing) = Len(orig) - count.undos
       /\ \A i \in 1..Len(drawing) :
            drawing[i] = orig[i].ref /\ heap[drawing[i]] = orig[i].obj
       /\ Len(redoStack) = count.undos
  /\ (phase = "redo" /\ count.redos = count.undos) =>
       /\ Len(drawing) = Len(orig)
       /\ \A i \in 1..Len(orig) :
            drawing[i] = orig[i].ref /\ heap[drawing[i]] = orig[i].obj
       /\ redoStack = <<>>

C2_Witness ==
  /\ phase = "redo"
  /\ count.redos = count.undos
  /\ count.undos >= 2
  /\ Len(orig) > count.undos

\* C3: every drawable is held by at most one of the in-progress slot, drawing
\* and redoStack, and at most once in each list.
C3_ExclusiveOwnership ==
  /\ NoDuplicates(drawing)
  /\ NoDuplicates(redoStack)
  /\ Range(drawing) \cap Range(redoStack) = {}
  /\ currentCommand # Null =>
       currentCommand \notin Range(drawing) \cup Range(redoStack)

C3_Witness ==
  /\ lastEvent.ev \in {"undo", "redo"}
  /\ currentCommand # Null
  /\ drawing # <<>>
  /\ redoStack # <<>>

\* C4: every pointer-down empties redoStack and leaves the undone drawables in
\* no owner; a pen click without a drag then ends with drawing unchanged and
\* redoStack still empty, and a redo on the empty redoStack changes neither.
C4_PointerDownEmptiesRedo ==
  [][/\ lastEvent'.ev = "mousedown" =>
          /\ redoStack' = <<>>
          /\ Range(redoStack) \cap (Range(drawing') \cup {currentCommand'}) = {}
     /\ (lastEvent.ev = "mousedown" /\ lastEvent'.ev \in StopEvents
           /\ heap[currentCommand].kind = "penLine") =>
          /\ drawing' = drawing
          /\ redoStack' = <<>>
          /\ currentCommand' = Null
     /\ (lastEvent'.ev = "redo" /\ redoStack = <<>>) =>
          /\ drawing' = drawing
          /\ redoStack' = <<>>]_vars

C4_Witness ==
  /\ lastEvent.ev = "mousedown"
  /\ lastEvent.dropped \cap everCommitted # {}
  /\ heap[currentCommand].kind = "penLine"
  /\ drawing # <<>>
  /\ redoStack = <<>>

\* C5: a stroke has one point after its pointer-down and one more for every
\* pointer-move while it is in progress; when the action ends it is appended to
\* drawing iff it has at least 2 points, and otherwise drawing is unchanged.
C5_StrokeCommittedIffTwoPoints ==
  [][/\ (lastEvent'.ev = "mousedown" /\ currentTool = "pen") =>
          Len(heap'[currentCommand'].path) = 1
     /\ (lastEvent'.ev = "mousemove" /\ currentCommand # Null
           /\ heap[currentCommand].kind = "penLine") =>
          Len(heap'[currentCommand].path) = Len(heap[currentCommand].path) + 1
     /\ (lastEvent'.ev \in StopEvents /\ currentCommand # Null
           /\ heap[currentCommand].kind = "penLine") =>
          IF Len(heap[currentCommand].path) >= 2
            THEN drawing' = Append(drawing, currentCommand)
            ELSE drawing' = drawing]_vars

C5_Witness ==
  /\ lastEvent.ev \in StopEvents
  /\ \E r \in lastEvent.committed :
       /\ heap[r].kind = "penLine"
       /\ Len(heap[r].path) = 2
       /\ heap[r].path[1] = heap[r].path[2]

\* C6: a stamp takes the pointer-down point and the glyph and rotation current
\* at pointer-down; while in progress only its position changes, to the point
\* of each pointer-move; when the action ends it is appended to drawing as it
\* is, with or without a move.
C6_StampAlwaysCommits ==
  [][/\ (lastEvent'.ev = "mousedown" /\ currentTool = "stamp") =>
          heap'[currentCommand'] =
            [kind |-> "Sticker", position |-> lastEvent'.pt,
             emoji |-> currentSticker, rotation |-> currentSetting]
     /\ (currentCommand # Null /\ heap[currentCommand].kind = "Sticker"
           /\ currentCommand' = currentCommand) =>
          heap'[currentCommand] =
            [heap[currentCommand] EXCEPT !.position =
               IF lastEvent'.ev = "mousemove" THEN lastEvent'.pt ELSE @]
     /\ (lastEvent'.ev \in StopEvents /\ currentCommand # Null
           /\ heap[currentCommand].kind = "Sticker") =>
          /\ drawing' = Append(drawing, currentCommand)
          /\ heap'[currentCommand] = heap[currentCommand]
          /\ currentCommand' = Null]_vars

C6_Witness ==
  /\ lastEvent.ev \in StopEvents
  /\ \E r \in lastEvent.committed :
       /\ heap[r].kind = "Sticker"
       /\ heap[r].emoji # currentSticker
       /\ heap[r].rotation # currentSetting
       /\ drawing = <<r>>

\* C7: a stroke starts as the pointer-down point with the width and colour
\* current at pointer-down; every pointer-move while it is in progress appends
\* its point and changes nothing else; it is committed as it is.
C7_StrokePathInDeliveryOrder ==
  [][/\ (lastEvent'.ev = "mousedown" /\ currentTool = "pen") =>
          heap'[currentCommand'] =
            [kind |-> "penLine", path |-> <<lastEvent'.pt>>,
             lineWidth |-> currentLineWidth,
             color |-> [fn |-> "hsl", h |-> currentSetting, s |-> 100, l |-> 50]]
     /\ (currentCommand # Null /\ heap[currentCommand].kind = "penLine"
           /\ currentCommand' = currentCommand) =>
          heap'[currentCommand] =
            [heap[currentCommand] EXCEPT !.path =
               IF lastEvent'.ev = "mousemove" THEN Append(@, lastEvent'.pt) ELSE @]
     /\ (lastEvent'.ev \in StopEvents /\ currentCommand # Null
           /\ heap[currentCommand].kind = "penLine"
           /\ Len(heap[currentCommand].path) >= 2) =>
          /\ drawing' = Append(drawing, currentCommand)
          /\ heap'[currentCommand] = heap[currentCommand]]_vars

C7_Witness ==
  /\ lastEvent.ev \in StopEvents
  /\ \E r \in lastEvent.committed :
       /\ heap[r].kind = "penLine"
       /\ Len(heap[r].path) = 3
       /\ heap[r].path[1] = heap[r].path[2]
       /\ heap[r].path[2] # heap[r].path[3]
       /\ heap[r].lineWidth # currentLineWidth
       /\ heap[r].color.h # currentSetting

\* C8: after clear, drawing and redoStack are empty, idle or active.
C8_ClearEmptiesBoth ==
  lastEvent.ev = "clear" => (drawing = <<>> /\ redoStack = <<>>)

C8_Witness ==
  /\ lastEvent.ev = "clear"
  /\ currentCommand # Null
  /\ Cardinality(lastEvent.dropped) >= 2

\* C9: undo on an empty drawing and redo on an empty redoStack change nothing:
\* not the lists, the slot, the preview, the tool parameters or the canvas.
C9_EmptyUndoRedoNoOp ==
  [][((lastEvent'.ev = "undo" /\ drawing = <<>>)
        \/ (lastEvent'.ev = "redo" /\ redoStack = <<>>)) =>
       /\ UNCHANGED <<heap, nextRef, drawing, redoStack, currentCommand, toolPreview,
                      isDrawing, currentTool, currentLineWidth, currentSticker,
                      currentSetting, availableStickers, surface>>
       /\ lastEvent'.redraws = 0]_vars

C9_Witness ==
  /\ lastEvent.ev = "undo"
  /\ drawing = <<>>
  /\ redoStack = <<>>
  /\ currentCommand # Null
  /\ currentTool = "stamp"

\* C10: export paints exactly the drawables of drawing, oldest first, each as
\* it is, and changes no list, slot, preview or canvas.
C10_ExportPaintsCommittedOnly ==
  [][lastEvent'.ev = "export" =>
       /\ Len(download') = Len(drawing)
       /\ \A i \in 1..Len(drawing) :
            /\ download'[i].obj = drawing[i]
            /\ download'[i].ink = Display(heap[drawing[i]])
       /\ UNCHANGED <<heap, nextRef, drawing, redoStack, currentCommand, toolPreview,
                      isDrawing, currentTool, currentLineWidth, currentSticker,
                      currentSetting, availableStickers, surface>>]_vars

C10_Witness ==
  /\ lastEvent.ev = "export"
  /\ Len(download) = 1
  /\ drawing # <<>>
  /\ redoStack # <<>>
  /\ currentCommand # Null
  /\ Display(heap[currentCommand]) # <<>>

ToolEvents == {"thin", "thick", "sticker", "slider"}
Idle == ~isDrawing /\ currentCommand = Null
Blank(str) == \A i \in 1..Len(str) : str[i] \in Whitespace

\* C11: whenever a command is in progress there is no preview, so no redraw
\* paints a preview during an action.
C11_NoPreviewWhileDrawing ==
  currentCommand # Null =>
    /\ toolPreview = NoPreview
    /\ \A i \in 1..Len(surface) : surface[i].obj # Null

C11_Witness ==
  /\ lastEvent.ev = "mousemove"
  /\ currentCommand # Null
  /\ drawing # <<>>

\* C12: a redraw leaves on the canvas the drawables of drawing, oldest first,
\* then the in-progress command if there is one, then the preview if there is
\* one, and nothing of redoStack.
C12_RedrawOrder ==
  lastEvent.redraws >= 1 =>
    LET n == Len(drawing)
        c == IF currentCommand # Null THEN 1 ELSE 0
        v == IF toolPreview # NoPreview THEN 1 ELSE 0
    IN /\ Len(surface) = n + c + v
       /\ \A i \in 1..n :
            surface[i] = [obj |-> drawing[i], ink |-> Display(heap[drawing[i]])]
       /\ c = 1 =>
            surface[n + 1] =
              [obj |-> currentCommand, ink |-> Display(heap[currentCommand])]
       /\ v = 1 =>
            surface[n + c + 1] = [obj |-> Null, ink |-> Display(toolPreview)]
       /\ \A i \in 1..Len(surface) : surface[i].obj \notin Range(redoStack)

C12_Witness ==
  /\ lastEvent.redraws >= 1
  /\ Len(drawing) >= 1
  /\ redoStack # <<>>
  /\ currentCommand # Null
  /\ Display(heap[currentCommand]) # <<>>

\* C13: every pointer, tool, undo, redo or clear event that changes the state
\* is followed by a redraw before the next event.
C13_EveryChangeRedraws ==
  [][(/\ lastEvent'.ev \in {"mousedown", "mousemove", "mouseup", "mouseleave",
                            "undo", "redo", "clear"} \cup ToolEvents
      /\ <<heap, drawing, redoStack, currentCommand, toolPreview, isDrawing,
           currentTool, currentLineWidth, currentSticker, currentSetting>>' #
         <<heap, drawing, redoStack, currentCommand, toolPreview, isDrawing,
           currentTool, currentLineWidth, currentSticker, currentSetting>>)
       => lastEvent'.redraws >= 1]_vars

\* C14: a redraw changes nothing but the canvas, a second redraw paints what
\* the first painted, and a redraw after a handler that has redrawn paints
\* what is on the canvas already.
C14_RedrawIdempotent ==
  LET once == redraw(State)
      twice == redraw(once)
  IN /\ [once EXCEPT !.surface = surface, !.redraws = 0] = State
     /\ twice.surface = once.surface
     /\ lastEvent.redraws >= 1 => once.surface = surface

C14_Witness ==
  /\ lastEvent.ev = "mouseleave"
  /\ lastEvent.redraws = 2
  /\ Len(surface) >= 2

\* C15: a tool selection or a slider change touches only the tool parameters;
\* the in-progress command keeps what it captured, and the command of a
\* later pointer-down takes the parameters then current.
C15_ToolChangeOnlyParameters ==
  [][/\ lastEvent'.ev \in ToolEvents =>
          UNCHANGED <<heap, nextRef, drawing, redoStack, currentCommand, isDrawing,
                      toolPreview, surface, availableStickers>>
     /\ lastEvent'.ev = "mousedown" =>
          heap'[currentCommand'] =
            IF currentTool = "pen"
              THEN [kind |-> "penLine", path |-> <<lastEvent'.pt>>,
                    lineWidth |-> currentLineWidth,
                    color |-> [fn |-> "hsl", h |-> currentSetting, s |-> 100, l |-> 50]]
              ELSE [kind |-> "Sticker", position |-> lastEvent'.pt,
                    emoji |-> currentSticker, rotation |-> currentSetting]]_vars

C15_Witness ==
  /\ lastEvent.ev = "sticker"
  /\ currentCommand # Null
  /\ heap[currentCommand].kind = "penLine"
  /\ heap[currentCommand].lineWidth # currentLineWidth
  /\ heap[currentCommand].color.h # currentSetting

\* C16: no event changes a field of a drawable that has been appended to
\* drawing, while it is in drawing or in redoStack.
C16_CommittedFrozen ==
  [][\A r \in everCommitted :
       (r \in DOMAIN heap /\ r \in DOMAIN heap') => heap'[r] = heap[r]]_vars

C16_Witness ==
  /\ lastEvent.ev = "mousemove"
  /\ currentCommand # Null
  /\ redoStack # <<>>
  /\ \E r \in Range(redoStack) : heap[r].kind = "Sticker"

\* C17: pointer-up and pointer-leave both end the action the same way (the
\* command is appended if it is a stamp or a stroke of at least 2 points, the
\* slot is emptied, the flag cleared, redoStack untouched); pointer-leave
\* also clears the preview, pointer-up leaves it.
C17_LeaveLikeUp ==
  [][lastEvent'.ev \in StopEvents =>
       /\ currentCommand' = Null
       /\ isDrawing' = FALSE
       /\ redoStack' = redoStack
       /\ drawing' =
            IF currentCommand # Null
                 /\ (heap[currentCommand].kind = "Sticker"
                       \/ Len(heap[currentCommand].path) >= 2)
              THEN Append(drawing, currentCommand)
              ELSE drawing
       /\ \A r \in Range(drawing') : heap'[r] = heap[r]
       /\ toolPreview' = IF lastEvent'.ev = "mouseleave" THEN NoPreview ELSE toolPreview
       /\ UNCHANGED <<currentTool, currentLineWidth, currentSticker, currentSetting>>]_vars

C17_Witness ==
  /\ lastEvent.ev = "mouseleave"
  /\ lastEvent.committed # {}
  /\ Len(drawing) >= 2

\* C18: with no action in progress, pointer-up changes nothing, pointer-move
\* only replaces the preview by one for the current tool parameters at the
\* pointer, and pointer-leave only clears the preview.
C18_IdleEvents ==
  [][Idle =>
       /\ lastEvent'.ev \in StopEvents \cup {"mousemove"} =>
            UNCHANGED <<heap, nextRef, drawing, redoStack, currentCommand, isDrawing,
                        currentTool, currentLineWidth, currentSticker, currentSetting,
                        availableStickers, everCommitted>>
       /\ lastEvent'.ev = "mouseup" => UNCHANGED <<toolPreview, surface>>
       /\ lastEvent'.ev = "mouseleave" => toolPreview' = NoPreview
       /\ lastEvent'.ev = "mousemove" =>
            toolPreview' =
              IF currentTool = "pen"
                THEN [kind |-> "penPreview", position |-> lastEvent'.pt,
                      lineWidth |-> currentLineWidth,
                      color |-> [fn |-> "hsla", h |-> currentSetting, s |-> 100,
                                 l |-> 50, a |-> 5]]
                ELSE [kind |-> "StickerPreview", position |-> lastEvent'.pt,
                      emoji |-> currentSticker, rotation |-> currentSetting]]_vars

C18_Witness ==
  /\ lastEvent.ev = "mouseleave"
  /\ lastEvent.committed = {}
  /\ lastEvent.dropped = {}
  /\ drawing # <<>>
  /\ currentSetting # 0

\* C19: an add-stamp click answered by cancel, by nothing or by blanks only
\* changes no state.
C19_BlankStampRejected ==
  [][(lastEvent'.ev = "addSticker"
        /\ (lastEvent'.answer.cancelled \/ Blank(lastEvent'.answer.text))) =>
       UNCHANGED <<heap, nextRef, drawing, redoStack, currentCommand, isDrawing,
                   toolPreview, currentTool, currentLineWidth, currentSticker,
                   currentSetting, availableStickers, surface>>]_vars

C19_Witness ==
  /\ lastEvent.ev = "addSticker"
  /\ ~lastEvent.answer.cancelled
  /\ lastEvent.answer.text = <<" ", " ">>
  /\ drawing # <<>>

HistoryEvents == {"clear", "undo", "redo"}
Committable(o) == o.kind = "Sticker" \/ Len(o.path) >= 2

\* C21: undo then redo, and redo then undo, give back drawing and redoStack
\* as they were: after an undo click that moved something, a redo click would
\* restore both lists of before the undo, and the same with the two swapped.
C21_UndoRedoInverse ==
  [][/\ (lastEvent'.ev = "undo" /\ drawing # <<>>) =>
          /\ drawing' # drawing
          /\ redo(State').drawing = drawing
          /\ redo(State').redoStack = redoStack
          /\ redo(State').heap = heap
     /\ (lastEvent'.ev = "redo" /\ redoStack # <<>>) =>
          /\ redoStack' # redoStack
          /\ undo(State').drawing = drawing
          /\ undo(State').redoStack = redoStack
          /\ undo(State').heap = heap]_vars

C21_Witness ==
  /\ lastEvent.ev = "undo"
  /\ Len(redoStack) >= 2
  /\ drawing # <<>>

\* C22: the flag is set exactly when the slot holds a command; a pointer-up
\* or pointer-leave leaves the flag clear and the slot empty, and what was in
\* the slot is then the last of drawing or in neither list.
C22_FlagIffSlot ==
  [][/\ isDrawing <=> currentCommand # Null
     /\ isDrawing' <=> currentCommand' # Null
     /\ lastEvent'.ev \in StopEvents =>
          /\ ~isDrawing'
          /\ currentCommand' = Null
          /\ currentCommand # Null =>
               \/ /\ drawing' = Append(drawing, currentCommand)
                  /\ currentCommand \notin Range(redoStack')
               \/ /\ currentCommand \notin Range(drawing') \cup Range(redoStack')
                  /\ currentCommand \in lastEvent'.dropped]_vars

C22_Witness ==
  /\ lastEvent.ev \in StopEvents
  /\ lastEvent.dropped # {}
  /\ drawing # <<>>
  /\ ~isDrawing

\* C23: a pointer-down while a command is in progress puts a new command,
\* seeded at the new point, in the slot; the earlier command is not appended
\* to drawing and is in neither list afterwards.
C23_SecondPointerDownReplaces ==
  [][(lastEvent'.ev = "mousedown" /\ currentCommand # Null) =>
       /\ currentCommand' \notin {Null, currentCommand}
       /\ currentCommand' \notin DOMAIN heap
       /\ IF heap'[currentCommand'].kind = "penLine"
            THEN heap'[currentCommand'].path = <<lastEvent'.pt>>
            ELSE heap'[currentCommand'].position = lastEvent'.pt
       /\ drawing' = drawing
       /\ currentCommand \notin Range(drawing') \cup Range(redoStack')
       /\ currentCommand \in lastEvent'.dropped
       /\ lastEvent'.committed = {}]_vars

C23_Witness ==
  /\ lastEvent.ev = "mousedown"
  /\ lastEvent.dropped # {}
  /\ currentCommand # Null
  /\ heap[currentCommand].kind = "Sticker"

\* C24: clear, undo and redo leave the slot, the flag and the command in the
\* slot as they are; after a clear during an action, a pointer-up would still
\* commit a committable command, so that drawing is that one command.
C24_HistoryLeavesSlot ==
  [][lastEvent'.ev \in HistoryEvents =>
       /\ currentCommand' = currentCommand
       /\ isDrawing' = isDrawing
       /\ currentCommand # Null => heap'[currentCommand] = heap[currentCommand]
       /\ (lastEvent'.ev = "clear" /\ currentCommand # Null
             /\ Committable(heap[currentCommand])) =>
            /\ drawing' = <<>>
            /\ stopDrawing(State').drawing = <<currentCommand>>]_vars

C24_Witness ==
  /\ lastEvent.ev = "clear"
  /\ lastEvent.dropped # {}
  /\ currentCommand # Null
  /\ heap[currentCommand].kind = "penLine"
  /\ Committable(heap[currentCommand])

C26_CustomStampAppended ==
  [][(lastEvent'.ev = "addSticker" /\ ~lastEvent'.answer.cancelled
        /\ ~Blank(lastEvent'.answer.text)) =>
       /\ availableStickers' = Append(availableStickers, lastEvent'.answer.text)
       /\ currentTool' = "stamp"
       /\ currentSticker' = lastEvent'.answer.text
       /\ UNCHANGED <<heap, nextRef, drawing, redoStack, currentCommand, isDrawing,
                      toolPreview, currentLineWidth, currentSetting, surface>>]_vars

C26_Witness ==
  /\ lastEvent.ev = "addSticker"
  /\ lastEvent.answer.text = <<"star">>
  /\ Len(availableStickers) = 4
  /\ availableStickers[1] = <<"star">>
  /\ availableStickers[4] = <<"star">>
  /\ currentSticker = <<"star">>
  /\ currentCommand # Null

====
